---- MODULE Spec2Model ----
(***************************************************************************)
(* State-machine model of src/src/build.ts: the script that renders each   *)
(* Marp transition into an animated GIF.  One controller (the async        *)
(* callback handed to usePuppeteer) runs the variant loop; the             *)
(* Page.screencastFrame handler runs between the controller's awaits.      *)
(* Every action is the completion of one awaited operation (success or     *)
(* rejection) together with the synchronous code that follows it.          *)
(***************************************************************************)
EXTENDS Integers, Sequences, FiniteSets, TLC

VARIABLES
    pc,                 \* position of the controller (the awaited operation)
    error,              \* the exception being propagated, "none" when there is none
    now,                \* Date.now(), in milliseconds
    deadline,           \* the time at which the pending sleep() resolves
    browser,            \* "none" | "open" | "closed"
    page,               \* "none" | "open" | "closed": the page of this iteration
    outDir,             \* [exists, gif]: out/ and the <transition>.gif files in it
    tmpDir,             \* [exists, md, html]: tmpDir, .transition.md, .transition.html
    transition,         \* index into transitions of the current loop iteration
    loaded,             \* the document page.goto loaded (0: none)
    screencast,         \* "off" | "on" | "stopped": Page.startScreencast state
    screencastStart,    \* the time Page.startScreencast was acknowledged
    listening,          \* the Page.screencastFrame handler is registered
    delivered,          \* number of screencastFrame events delivered to the handler
    acked,              \* number of Page.screencastFrameAck sent
    events,             \* the events delivered: [data, at], at = the phase of capture
    trace,              \* what the controller has done in this iteration, in order
    openPages,          \* number of pages open in the browser
    liveCoders,         \* number of transcoder instances created and not exited
    captured,           \* const captured: CaptureData[]
    lastTimestamp,      \* const lastTimestamp
    firstTimestamp,     \* const firstTimestamp
    durationMs,         \* const durationMs
    frames,             \* const frames
    capturedTimestamps, \* findFrame's snapshot (without the trailing Infinity)
    ffmpeg,             \* "none" | "created" | "loaded" | "exited"
    fs,                 \* [stills, files]: the transcoder's in-memory file system
    frame,              \* let frame: the loop index
    selected            \* per visited frame: [index, timestamp, sample]

vars == <<pc, error, now, deadline, browser, page, outDir, tmpDir, transition,
          loaded, screencast, screencastStart, listening, delivered, acked,
          captured, lastTimestamp, firstTimestamp, durationMs, frames,
          capturedTimestamps, ffmpeg, fs, frame, selected, events, trace,
          openPages, liveCoders>>

----------------------------------------------------------------------------
(* Bounds of the model *)

\* number of entries of the transitions list that the model iterates over
NumTransitions == 2
\* screencast frame events the browser delivers per variant
MaxEvents == 2
\* granularity of the clock while the controller sleeps, in ms
TickMs == 1250
\* sessions handed to the resampler directly: number of samples, time grid
MaxSamples == 3
GridMs == 20
MaxGrid == 6
\* evenly spaced sessions handed to the resampler directly
MaxEvenSamples == 10
\* handler invocations that run after the resampler's snapshot
MaxLate == 1

----------------------------------------------------------------------------
(* settings *)

fps == 25
\* settings.duration * 1000
durationMillis == 500
\* settings.wait * 1000
waitMillis == 750
\* the "+ 250" of the warm-up sleeps
warmupMargin == 250
\* the target length of padStart(10, '0') in the name of a still image
NameWidth == 10

transitions == 1..NumTransitions

Unset == -1
NoFs == [stills |-> {}, files |-> {}]
Payloads == {"png", "null"}

Max(a, b) == IF a >= b THEN a ELSE b
Min(S) == CHOOSE x \in S : \A y \in S : x <= y

----------------------------------------------------------------------------
(* The resampler: findFrame and the frame loop's arithmetic *)

\* mutant: Math.ceil in place of Math.floor
FrameCount_Ceil(d) == (d * fps + 999) \div 1000

\* Math.floor((durationMs * settings.fps) / 1000)
FrameCount(d) == (d * fps) \div 1000

\* firstTimestamp + (1000 * frame) / settings.fps
FrameTimestamp(first, f) == first + (1000 * f) \div fps

\* mutant: capturedTimestamps.push(Infinity) left out, so findIndex answers
\* -1 for a timestamp later than every sample
FindIndex_NoInfinity(ts, timestamp) ==
    LET hits == {i \in 1..Len(ts) : ts[i] >= timestamp}
    IN  IF hits = {} THEN -1 ELSE Min(hits) - 1

\* mutant: a miss answered with the length of the buffer at the time of the
\* call instead of the index of the snapshot's Infinity entry
FindIndex_LiveLength(ts, timestamp) ==
    LET hits == {i \in 1..Len(ts) : ts[i] >= timestamp}
    IN  IF hits = {} THEN Len(captured) ELSE Min(hits) - 1

\* capturedTimestamps.findIndex((t) => t >= timestamp), 0-based, over the
\* snapshot followed by Infinity: the Infinity entry (index Len(ts)) always
\* satisfies the test, so the result is never -1.
FindIndex(ts, timestamp) ==
    LET hits == {i \in 1..Len(ts) : ts[i] >= timestamp}
    IN  IF hits = {} THEN Len(ts) ELSE Min(hits) - 1

\* mutant: the clamp Math.max(0, ...) left out
FindFrame_NoClamp(ts, timestamp) == FindIndex(ts, timestamp) - 1

\* Math.max(0, findIndex(...) - 1): the 0-based index into captured
FindFrame(ts, timestamp) == Max(0, FindIndex(ts, timestamp) - 1)

----------------------------------------------------------------------------
(* Variable groups *)

clock     == <<now, deadline>>
resources == <<browser, page, openPages>>
files     == <<outDir, tmpDir>>
cast      == <<screencast, screencastStart, listening, delivered, acked, captured,
               events>>
locals    == <<lastTimestamp, firstTimestamp, durationMs, frames,
               capturedTimestamps, frame, selected>>
coder     == <<ffmpeg, fs, liveCoders>>

SleepPcs == {"warmSleep1", "warmSleep2", "preroll", "sleepAdvance", "sleepRetreat"}

\* mutant: the warm-up without its retreat
AfterSleep_NoWarmupRetreat(p) ==
    CASE p = "warmSleep1"   -> "createCDP"
      [] p = "warmSleep2"   -> "createCDP"
      [] p = "preroll"      -> "advance"
      [] p = "sleepAdvance" -> "retreat"
      [] p = "sleepRetreat" -> "stopScreencast"

\* the operation awaited once the sleep at p has resolved
AfterSleep(p) ==
    CASE p = "warmSleep1"   -> "warmRetreat"
      [] p = "warmSleep2"   -> "createCDP"
      [] p = "preroll"      -> "advance"
      [] p = "sleepAdvance" -> "retreat"
      [] p = "sleepRetreat" -> "stopScreencast"

\* the phase of the capture in which the controller awaits at p: the
\* screencast runs from the resolution of Page.startScreencast, the stop
\* request is pending at "stopScreencast", page.close() at "pageClose"
Phase(p) ==
    CASE p \in SleepPcs \ {"warmSleep1", "warmSleep2"} -> "recording"
      [] p \in {"advance", "retreat"} -> "recording"
      [] p = "stopScreencast" -> "stopping"
      [] p = "pageClose" -> "closing"
      [] p \in {"warmAdvance", "warmSleep1", "warmRetreat", "warmSleep2"} -> "warmup"
      [] OTHER -> "idle"

\* the statements of one iteration between page.goto and Page.stopScreencast,
\* in program order
CaptureSequence ==
    <<"loaded", "advance", "wait", "retreat", "wait",
      "start", "wait", "advance", "wait", "retreat", "wait", "stop">>

----------------------------------------------------------------------------
(* Initial state: the script has been started, nothing has run yet *)

Init ==
    /\ pc = "launch"
    /\ error = "none"
    /\ now = 0
    /\ deadline = 0
    /\ browser = "none"
    /\ page = "none"
    /\ outDir = [exists |-> FALSE, gif |-> [t \in transitions |-> 0]]
    /\ tmpDir = [exists |-> FALSE, md |-> 0, html |-> 0]
    /\ transition = 0
    /\ loaded = 0
    /\ screencast = "off"
    /\ screencastStart = Unset
    /\ listening = FALSE
    /\ delivered = 0
    /\ acked = 0
    /\ captured = <<>>
    /\ lastTimestamp = Unset
    /\ firstTimestamp = Unset
    /\ durationMs = Unset
    /\ frames = Unset
    /\ capturedTimestamps = <<>>
    /\ ffmpeg = "none"
    /\ fs = NoFs
    /\ frame = Unset
    /\ selected = <<>>
    /\ events = <<>>
    /\ trace = <<>>
    /\ openPages = 0
    /\ liveCoders = 0

----------------------------------------------------------------------------
(* usePuppeteer and the set-up of the callback *)

\* puppeteer.launch: a rejection leaves no browser and ends the script
Launch ==
    /\ pc = "launch"
    /\ \/ /\ browser' = "open"
          /\ pc' = "mkdirOut"
          /\ UNCHANGED error
       \/ /\ error' = "launch"
          /\ pc' = "done"
          /\ UNCHANGED browser
    /\ UNCHANGED <<clock, page, files, transition, loaded, cast, locals,
                   coder, trace, openPages>>

\* fsPromise.mkdir(outDir, { recursive: true })
MkdirOut ==
    /\ pc = "mkdirOut"
    /\ \/ /\ outDir' = [outDir EXCEPT !.exists = TRUE]
          /\ pc' = "mkdtemp"
          /\ UNCHANGED error
       \/ /\ error' = "mkdir"
          /\ pc' = "browserClose"
          /\ UNCHANGED outDir
    /\ UNCHANGED <<clock, resources, tmpDir, transition, loaded, cast,
                   locals, coder, trace>>

\* fsPromise.mkdtemp: it is awaited before the try block, so a rejection
\* goes straight to usePuppeteer's finally
Mkdtemp ==
    /\ pc = "mkdtemp"
    /\ \/ /\ tmpDir' = [exists |-> TRUE, md |-> 0, html |-> 0]
          /\ pc' = "loop"
          /\ UNCHANGED error
       \/ /\ error' = "mkdtemp"
          /\ pc' = "browserClose"
          /\ UNCHANGED tmpDir
    /\ UNCHANGED <<clock, resources, outDir, transition, loaded, cast,
                   locals, coder, trace>>

\* for (const transition of transitions): the next iteration, whose consts
\* are fresh, or the end of the loop
NextTransition ==
    /\ pc = "loop"
    /\ \/ /\ transition < NumTransitions
          /\ transition' = transition + 1
          /\ pc' = "writeMd"
          /\ page' = "none"
          /\ loaded' = 0
          /\ screencast' = "off"
          /\ screencastStart' = Unset
          /\ listening' = FALSE
          /\ delivered' = 0
          /\ acked' = 0
          /\ captured' = <<>>
          /\ lastTimestamp' = Unset
          /\ firstTimestamp' = Unset
          /\ durationMs' = Unset
          /\ frames' = Unset
          /\ capturedTimestamps' = <<>>
          /\ frame' = Unset
          /\ selected' = <<>>
          /\ ffmpeg' = "none"
          /\ fs' = NoFs
          /\ events' = <<>>
          /\ trace' = <<>>
       \/ /\ transition >= NumTransitions
          /\ pc' = "rmTmp"
          /\ UNCHANGED <<transition, page, loaded, cast, locals, ffmpeg, fs,
                         trace>>
    /\ UNCHANGED <<error, clock, browser, files, openPages, liveCoders>>

\* fsPromise.writeFile(tmpMd, md)
WriteMd ==
    /\ pc = "writeMd"
    /\ \/ /\ tmpDir' = [tmpDir EXCEPT !.md = transition]
          /\ pc' = "marpCli"
          /\ UNCHANGED error
       \/ /\ error' = "writeMd"
          /\ pc' = "rmTmp"
          /\ UNCHANGED tmpDir
    /\ UNCHANGED <<clock, resources, outDir, transition, loaded, cast,
                   locals, coder, trace>>

\* marpCli([tmpMd, '-o', tmpHtml, ...]): the promise resolves to an exit
\* status that the script does not look at, so a conversion that wrote
\* nothing continues like one that wrote tmpHtml; a rejection throws
MarpCli ==
    /\ pc = "marpCli"
    /\ \/ /\ tmpDir' = [tmpDir EXCEPT !.html = tmpDir.md]
          /\ pc' = "newPage"
          /\ UNCHANGED error
       \/ /\ pc' = "newPage"
          /\ UNCHANGED <<tmpDir, error>>
       \/ /\ error' = "marpCli"
          /\ pc' = "rmTmp"
          /\ UNCHANGED tmpDir
    /\ UNCHANGED <<clock, resources, outDir, transition, loaded, cast,
                   locals, coder, trace>>

\* const captured = []; const page = await browser.newPage()
NewPage ==
    /\ pc = "newPage"
    /\ \/ /\ page' = "open"
          /\ openPages' = openPages + 1
          /\ pc' = "goto"
          /\ UNCHANGED error
       \/ /\ error' = "newPage"
          /\ pc' = "rmTmp"
          /\ UNCHANGED <<page, openPages>>
    /\ UNCHANGED <<clock, browser, files, transition, loaded, cast, locals,
                   coder, trace>>

----------------------------------------------------------------------------
(* The capture sequence, inside try { ... } finally { page.close() } *)

\* page.goto(tmpHtml): there is nothing to load when tmpHtml was never written
Goto ==
    /\ pc = "goto"
    /\ \/ /\ tmpDir.html /= 0
          /\ loaded' = tmpDir.html
          /\ pc' = "warmAdvance"
          /\ trace' = Append(trace, "loaded")
          /\ UNCHANGED error
       \/ /\ error' = "goto"
          /\ UNCHANGED trace
          /\ pc' = "pageClose"
          /\ UNCHANGED loaded
    /\ UNCHANGED <<clock, resources, files, transition, cast, locals, coder>>

\* page.keyboard.press('ArrowRight'); sleep(settings.duration * 1000 + 250)
WarmupAdvance ==
    /\ pc = "warmAdvance"
    /\ \/ /\ deadline' = now + durationMillis + warmupMargin
          /\ pc' = "warmSleep1"
          /\ trace' = Append(trace, "advance")
          /\ UNCHANGED error
       \/ /\ error' = "press"
          /\ UNCHANGED trace
          /\ pc' = "pageClose"
          /\ UNCHANGED deadline
    /\ UNCHANGED <<now, resources, files, transition, loaded, cast, locals,
                   coder>>

\* page.keyboard.press('ArrowLeft'); sleep(settings.duration * 1000 + 250)
WarmupRetreat ==
    /\ pc = "warmRetreat"
    /\ \/ /\ deadline' = now + durationMillis + warmupMargin
          /\ pc' = "warmSleep2"
          /\ trace' = Append(trace, "retreat")
          /\ UNCHANGED error
       \/ /\ error' = "press"
          /\ UNCHANGED trace
          /\ pc' = "pageClose"
          /\ UNCHANGED deadline
    /\ UNCHANGED <<now, resources, files, transition, loaded, cast, locals,
                   coder>>

\* page.target().createCDPSession()
CreateCDPSession ==
    /\ pc = "createCDP"
    /\ \/ /\ pc' = "pageEnable"
          /\ UNCHANGED error
       \/ /\ error' = "createCDPSession"
          /\ pc' = "pageClose"
    /\ UNCHANGED <<clock, resources, files, transition, loaded, cast, locals,
                   coder, trace>>

\* cdpClient.send('Page.enable'); cdpClient.on('Page.screencastFrame', ...)
PageEnable ==
    /\ pc = "pageEnable"
    /\ \/ /\ listening' = TRUE
          /\ pc' = "startScreencast"
          /\ UNCHANGED error
       \/ /\ error' = "Page.enable"
          /\ pc' = "pageClose"
          /\ UNCHANGED listening
    /\ UNCHANGED <<clock, resources, files, transition, loaded, screencast,
                   screencastStart, delivered, acked, captured, locals,
                   coder, trace, events>>

\* cdpClient.send('Page.startScreencast'); sleep(settings.wait * 500)
StartScreencast ==
    /\ pc = "startScreencast"
    /\ \/ /\ screencast' = "on"
          /\ screencastStart' = now
          /\ deadline' = now + waitMillis \div 2
          /\ pc' = "preroll"
          /\ trace' = Append(trace, "start")
          /\ UNCHANGED error
       \/ /\ error' = "Page.startScreencast"
          /\ UNCHANGED trace
          /\ pc' = "pageClose"
          /\ UNCHANGED <<screencast, screencastStart, deadline>>
    /\ UNCHANGED <<now, resources, files, transition, loaded, listening,
                   delivered, acked, captured, locals, coder, events>>

\* page.keyboard.press('ArrowRight');
\* sleep((settings.duration + settings.wait) * 1000)
Advance ==
    /\ pc = "advance"
    /\ \/ /\ deadline' = now + durationMillis + waitMillis
          /\ pc' = "sleepAdvance"
          /\ trace' = Append(trace, "advance")
          /\ UNCHANGED error
       \/ /\ error' = "press"
          /\ UNCHANGED trace
          /\ pc' = "pageClose"
          /\ UNCHANGED deadline
    /\ UNCHANGED <<now, resources, files, transition, loaded, cast, locals,
                   coder>>

\* page.keyboard.press('ArrowLeft');
\* sleep(settings.duration * 1000 + settings.wait * 500)
Retreat ==
    /\ pc = "retreat"
    /\ \/ /\ deadline' = now + durationMillis + waitMillis \div 2
          /\ pc' = "sleepRetreat"
          /\ trace' = Append(trace, "retreat")
          /\ UNCHANGED error
       \/ /\ error' = "press"
          /\ UNCHANGED trace
          /\ pc' = "pageClose"
          /\ UNCHANGED deadline
    /\ UNCHANGED <<now, resources, files, transition, loaded, cast, locals,
                   coder>>

\* cdpClient.send('Page.stopScreencast')
StopScreencast ==
    /\ pc = "stopScreencast"
    /\ \/ /\ screencast' = "stopped"
          /\ trace' = Append(trace, "stop")
          /\ pc' = "pageClose"
          /\ UNCHANGED error
       \/ /\ error' = "Page.stopScreencast"
          /\ UNCHANGED trace
          /\ pc' = "pageClose"
          /\ UNCHANGED screencast
    /\ UNCHANGED <<clock, resources, files, transition, loaded,
                   screencastStart, listening, delivered, acked, captured,
                   locals, coder, events>>

\* mutant: catch { await page.close(); throw } in place of finally, which
\* leaves the page open when the capture succeeds
PageClose_OnlyOnError ==
    /\ pc = "pageClose"
    /\ page' = IF error = "none" THEN page ELSE "closed"
    /\ openPages' = IF error = "none" THEN openPages ELSE openPages - 1
    /\ listening' = FALSE
    /\ pc' = IF error = "none" THEN "generate" ELSE "rmTmp"
    /\ UNCHANGED <<error, clock, browser, files, transition, loaded,
                   screencast, screencastStart, delivered, acked, captured,
                   locals, coder, trace, events>>

\* finally { await page.close() }: the session goes with the page; an
\* exception thrown in the try block passes on to the outer finally
PageClose ==
    /\ pc = "pageClose"
    /\ page' = "closed"
    /\ openPages' = openPages - 1
    /\ listening' = FALSE
    /\ pc' = IF error = "none" THEN "generate" ELSE "rmTmp"
    /\ UNCHANGED <<error, clock, browser, files, transition, loaded,
                   screencast, screencastStart, delivered, acked, captured,
                   locals, coder, trace, events>>

\* sleep(ms): time passes while the controller waits for its timer
Tick ==
    /\ pc \in SleepPcs
    /\ now < deadline
    /\ now' = now + TickMs
    /\ UNCHANGED <<pc, error, deadline, resources, files, transition, loaded,
                   cast, locals, coder, trace>>

\* the timer of the pending sleep fires
SleepDone ==
    /\ pc \in SleepPcs
    /\ now >= deadline
    /\ pc' = AfterSleep(pc)
    /\ trace' = Append(trace, "wait")
    /\ UNCHANGED <<error, clock, resources, files, transition, loaded, cast,
                   locals, coder>>

\* mutant: if (data) captured.push(...), which keeps no record of an event
\* without image data
ScreencastFrame_DropNull ==
    /\ listening
    /\ screencast = "on"
    /\ page = "open"
    /\ delivered < MaxEvents
    /\ \E data \in Payloads :
          /\ events' = Append(events, [data |-> data, at |-> Phase(pc)])
          /\ captured' = IF data = "null"
                         THEN captured
                         ELSE Append(captured, [timestamp |-> now, data |-> data])
    /\ delivered' = delivered + 1
    /\ acked' = acked + 1
    /\ UNCHANGED <<pc, error, clock, resources, files, transition, loaded,
                   screencast, screencastStart, listening, locals, coder,
                   trace>>

\* mutant: captured.unshift(...) in place of captured.push(...)
ScreencastFrame_Unshift ==
    /\ listening
    /\ screencast = "on"
    /\ page = "open"
    /\ delivered < MaxEvents
    /\ \E data \in Payloads :
          /\ events' = Append(events, [data |-> data, at |-> Phase(pc)])
          /\ captured' = <<[timestamp |-> now, data |-> data]>> \o captured
    /\ delivered' = delivered + 1
    /\ acked' = acked + 1
    /\ UNCHANGED <<pc, error, clock, resources, files, transition, loaded,
                   screencast, screencastStart, listening, locals, coder,
                   trace>>

\* the Page.screencastFrame handler: captured.push({ timestamp: Date.now(),
\* data }) and then the acknowledgement, with no await in between
ScreencastFrame ==
    /\ listening
    /\ screencast = "on"
    /\ page = "open"
    /\ delivered < MaxEvents
    /\ \E data \in Payloads :
          /\ events' = Append(events, [data |-> data, at |-> Phase(pc)])
          /\ captured' = Append(captured, [timestamp |-> now, data |-> data])
    /\ delivered' = delivered + 1
    /\ acked' = acked + 1
    /\ UNCHANGED <<pc, error, clock, resources, files, transition, loaded,
                   screencast, screencastStart, listening, locals, coder,
                   trace>>

----------------------------------------------------------------------------
(* The name of a still image.  A name is modelled by the digits between    *)
(* "frame-" and ".png", most significant first.                            *)

\* frame.toString(): the decimal digits of a non-negative integer
RECURSIVE Digits(_)
Digits(n) == IF n < 10 THEN <<n>> ELSE Append(Digits(n \div 10), n % 10)

\* String.prototype.padStart(targetLength, padString) with a one-character
\* pad: a string that is long enough already is returned as it is
PadStart(s, targetLength, c) ==
    IF Len(s) >= targetLength
    THEN s
    ELSE [i \in 1..(targetLength - Len(s)) |-> c] \o s

\* `frame-${frame.toString().padStart(10, '0')}.png`
StillName(f) == PadStart(Digits(f), NameWidth, 0)

----------------------------------------------------------------------------
(* Generating frames and the transcode pipeline *)

\* mutant: the timeline anchored at the start of the screencast instead of
\* at the first sample
GenerateFrames_AnchorAtStart ==
    /\ pc = "generate"
    /\ lastTimestamp' = now
    /\ \/ /\ captured = <<>>
          /\ error' = "TypeError"
          /\ pc' = "rmTmp"
          /\ UNCHANGED <<firstTimestamp, durationMs, frames, capturedTimestamps,
                         ffmpeg, liveCoders>>
       \/ /\ captured /= <<>>
          /\ firstTimestamp' = screencastStart
          /\ durationMs' = now - screencastStart
          /\ frames' = FrameCount(now - screencastStart)
          /\ capturedTimestamps' = [i \in 1..Len(captured) |-> captured[i].timestamp]
          /\ ffmpeg' = "created"
          /\ liveCoders' = liveCoders + 1
          /\ pc' = "ffmpegLoad"
          /\ UNCHANGED error
    /\ UNCHANGED <<clock, resources, files, transition, loaded, cast, frame,
                   selected, fs, trace>>

\* mutant: captured[0]?.timestamp ?? lastTimestamp, which does not throw on
\* an empty buffer
GenerateFrames_EmptyTolerant ==
    /\ pc = "generate"
    /\ lastTimestamp' = now
    /\ \/ /\ captured = <<>>
          /\ firstTimestamp' = now
          /\ durationMs' = 0
          /\ frames' = 0
          /\ capturedTimestamps' = <<>>
          /\ ffmpeg' = "created"
          /\ liveCoders' = liveCoders + 1
          /\ pc' = "ffmpegLoad"
          /\ UNCHANGED error
       \/ /\ captured /= <<>>
          /\ firstTimestamp' = captured[1].timestamp
          /\ durationMs' = now - captured[1].timestamp
          /\ frames' = FrameCount(now - captured[1].timestamp)
          /\ capturedTimestamps' = [i \in 1..Len(captured) |-> captured[i].timestamp]
          /\ ffmpeg' = "created"
          /\ liveCoders' = liveCoders + 1
          /\ pc' = "ffmpegLoad"
          /\ UNCHANGED error
    /\ UNCHANGED <<clock, resources, files, transition, loaded, cast, frame,
                   selected, fs, trace>>

\* const lastTimestamp = Date.now() ... const ffmpeg = createFFmpeg(): the
\* synchronous code up to the await of ffmpeg.load().  captured[0] is
\* undefined when nothing was captured, and reading its timestamp throws a
\* TypeError before anything else is computed.
GenerateFrames ==
    /\ pc = "generate"
    /\ lastTimestamp' = now
    /\ \/ /\ captured = <<>>
          /\ error' = "TypeError"
          /\ pc' = "rmTmp"
          /\ UNCHANGED <<firstTimestamp, durationMs, frames, capturedTimestamps,
                         ffmpeg, liveCoders>>
       \/ /\ captured /= <<>>
          /\ firstTimestamp' = captured[1].timestamp
          /\ durationMs' = now - captured[1].timestamp
          /\ frames' = FrameCount(now - captured[1].timestamp)
          /\ capturedTimestamps' = [i \in 1..Len(captured) |-> captured[i].timestamp]
          /\ ffmpeg' = "created"
          /\ liveCoders' = liveCoders + 1
          /\ pc' = "ffmpegLoad"
          /\ UNCHANGED error
    /\ UNCHANGED <<clock, resources, files, transition, loaded, cast, frame,
                   selected, fs, trace>>

\* await ffmpeg.load(), outside the try block: a rejection skips ffmpeg.exit().
\* On success the frame loop is entered, or left at once when frames is 0.
FfmpegLoad ==
    /\ pc = "ffmpegLoad"
    /\ \/ /\ ffmpeg' = "loaded"
          /\ frame' = 0
          /\ pc' = IF 0 < frames THEN "frameLoop" ELSE "assemble"
          /\ UNCHANGED error
       \/ /\ error' = "ffmpeg.load"
          /\ pc' = "rmTmp"
          /\ UNCHANGED <<ffmpeg, frame>>
    /\ UNCHANGED <<clock, resources, files, transition, loaded, cast,
                   lastTimestamp, firstTimestamp, durationMs, frames,
                   capturedTimestamps, selected, fs, trace, liveCoders>>

\* mutant: the loop test written frame < frames - 1, which leaves the loop
\* one frame early
FrameStep_EarlyExit ==
    /\ pc = "frameLoop"
    /\ frame < frames
    /\ LET timestamp == FrameTimestamp(firstTimestamp, frame)
           sample    == FindFrame(capturedTimestamps, timestamp)
           data      == IF sample + 1 \in DOMAIN captured
                        THEN captured[sample + 1].data
                        ELSE "undefined"
       IN  /\ selected' = Append(selected, [index |-> frame,
                                            timestamp |-> timestamp,
                                            sample |-> sample])
           /\ \/ /\ data = "undefined"
                 /\ error' = "TypeError"
                 /\ pc' = "ffmpegExit"
                 /\ UNCHANGED <<fs, frame>>
              \/ /\ data = "png"
                 /\ fs' = [fs EXCEPT !.stills = @ \cup {StillName(frame)}]
                 /\ frame' = frame + 1
                 /\ pc' = IF frame + 1 < frames - 1 THEN "frameLoop" ELSE "assemble"
                 /\ UNCHANGED error
              \/ /\ data = "png"
                 /\ error' = "FS.writeFile"
                 /\ pc' = "ffmpegExit"
                 /\ UNCHANGED <<fs, frame>>
              \/ /\ data = "null"
                 /\ frame' = frame + 1
                 /\ pc' = IF frame + 1 < frames - 1 THEN "frameLoop" ELSE "assemble"
                 /\ UNCHANGED <<fs, error>>
    /\ UNCHANGED <<clock, resources, files, transition, loaded, cast,
                   lastTimestamp, firstTimestamp, durationMs, frames,
                   capturedTimestamps, ffmpeg, trace, liveCoders>>

\* mutant: the still image named by the number of files written so far
FrameStep_NameByCount ==
    /\ pc = "frameLoop"
    /\ frame < frames
    /\ LET timestamp == FrameTimestamp(firstTimestamp, frame)
           sample    == FindFrame(capturedTimestamps, timestamp)
           data      == IF sample + 1 \in DOMAIN captured
                        THEN captured[sample + 1].data
                        ELSE "undefined"
       IN  /\ selected' = Append(selected, [index |-> frame,
                                            timestamp |-> timestamp,
                                            sample |-> sample])
           /\ \/ /\ data = "undefined"
                 /\ error' = "TypeError"
                 /\ pc' = "ffmpegExit"
                 /\ UNCHANGED <<fs, frame>>
              \/ /\ data = "png"
                 /\ fs' = [fs EXCEPT !.stills = @ \cup {StillName(Cardinality(fs.stills))}]
                 /\ frame' = frame + 1
                 /\ pc' = IF frame + 1 < frames THEN "frameLoop" ELSE "assemble"
                 /\ UNCHANGED error
              \/ /\ data = "png"
                 /\ error' = "FS.writeFile"
                 /\ pc' = "ffmpegExit"
                 /\ UNCHANGED <<fs, frame>>
              \/ /\ data = "null"
                 /\ frame' = frame + 1
                 /\ pc' = IF frame + 1 < frames THEN "frameLoop" ELSE "assemble"
                 /\ UNCHANGED <<fs, error>>
    /\ UNCHANGED <<clock, resources, files, transition, loaded, cast,
                   lastTimestamp, firstTimestamp, durationMs, frames,
                   capturedTimestamps, ffmpeg, trace, liveCoders>>

\* one iteration of for (let frame = 0; frame < frames; frame += 1): the
\* nominal timestamp, findFrame, and the still image when there is data.
\* Destructuring throws a TypeError when findFrame returns undefined (an
\* index outside captured).
FrameStep ==
    /\ pc = "frameLoop"
    /\ frame < frames
    /\ LET timestamp == FrameTimestamp(firstTimestamp, frame)
           sample    == FindFrame(capturedTimestamps, timestamp)
           data      == IF sample + 1 \in DOMAIN captured
                        THEN captured[sample + 1].data
                        ELSE "undefined"
       IN  /\ selected' = Append(selected, [index |-> frame,
                                            timestamp |-> timestamp,
                                            sample |-> sample])
           /\ \/ /\ data = "undefined"
                 /\ error' = "TypeError"
                 /\ pc' = "ffmpegExit"
                 /\ UNCHANGED <<fs, frame>>
              \/ /\ data = "png"
                 /\ fs' = [fs EXCEPT !.stills = @ \cup {StillName(frame)}]
                 /\ frame' = frame + 1
                 /\ pc' = IF frame + 1 < frames THEN "frameLoop" ELSE "assemble"
                 /\ UNCHANGED error
              \/ /\ data = "png"
                 /\ error' = "FS.writeFile"
                 /\ pc' = "ffmpegExit"
                 /\ UNCHANGED <<fs, frame>>
              \/ /\ data = "null"
                 /\ frame' = frame + 1
                 /\ pc' = IF frame + 1 < frames THEN "frameLoop" ELSE "assemble"
                 /\ UNCHANGED <<fs, error>>
    /\ UNCHANGED <<clock, resources, files, transition, loaded, cast,
                   lastTimestamp, firstTimestamp, durationMs, frames,
                   capturedTimestamps, ffmpeg, trace, liveCoders>>

\* mutant: an assemble step that makes raw.mkv out of no still image
Assemble_EmptyInputAccepted ==
    /\ pc = "assemble"
    /\ \/ /\ TRUE
          /\ fs' = [fs EXCEPT !.files = @ \cup {"raw.mkv"}]
          /\ pc' = "palettegen"
          /\ UNCHANGED error
       \/ /\ error' = "assemble"
          /\ pc' = "ffmpegExit"
          /\ UNCHANGED fs
    /\ UNCHANGED <<clock, resources, files, transition, loaded, cast, locals,
                   ffmpeg, trace, liveCoders>>

\* ffmpeg.run('-framerate', fps, '-i', 'frame-%010d.png', '-c:v', 'copy',
\* 'raw.mkv'): there is nothing to assemble without a still image
Assemble ==
    /\ pc = "assemble"
    /\ \/ /\ fs.stills /= {}
          /\ fs' = [fs EXCEPT !.files = @ \cup {"raw.mkv"}]
          /\ pc' = "palettegen"
          /\ UNCHANGED error
       \/ /\ error' = "assemble"
          /\ pc' = "ffmpegExit"
          /\ UNCHANGED fs
    /\ UNCHANGED <<clock, resources, files, transition, loaded, cast, locals,
                   ffmpeg, trace, liveCoders>>

\* ffmpeg.run('-i', 'raw.mkv', '-vf', `${scale},palettegen`, 'palette.png')
Palettegen ==
    /\ pc = "palettegen"
    /\ \/ /\ "raw.mkv" \in fs.files
          /\ fs' = [fs EXCEPT !.files = @ \cup {"palette.png"}]
          /\ pc' = "paletteuse"
          /\ UNCHANGED error
       \/ /\ error' = "palettegen"
          /\ pc' = "ffmpegExit"
          /\ UNCHANGED fs
    /\ UNCHANGED <<clock, resources, files, transition, loaded, cast, locals,
                   ffmpeg, trace, liveCoders>>

\* mutant: the failure of the encode is recorded but the script goes on to
\* the publish step
Paletteuse_Swallowed ==
    /\ pc = "paletteuse"
    /\ \/ /\ {"raw.mkv", "palette.png"} \subseteq fs.files
          /\ fs' = [fs EXCEPT !.files = @ \cup {"animation.gif"}]
          /\ pc' = "publish"
          /\ UNCHANGED error
       \/ /\ error' = "paletteuse"
          /\ pc' = "publish"
          /\ UNCHANGED fs
    /\ UNCHANGED <<clock, resources, files, transition, loaded, cast, locals,
                   ffmpeg, trace, liveCoders>>

\* ffmpeg.run('-i', 'raw.mkv', '-i', 'palette.png', '-lavfi', ..., '-y',
\* 'animation.gif')
Paletteuse ==
    /\ pc = "paletteuse"
    /\ \/ /\ {"raw.mkv", "palette.png"} \subseteq fs.files
          /\ fs' = [fs EXCEPT !.files = @ \cup {"animation.gif"}]
          /\ pc' = "publish"
          /\ UNCHANGED error
       \/ /\ error' = "paletteuse"
          /\ pc' = "ffmpegExit"
          /\ UNCHANGED fs
    /\ UNCHANGED <<clock, resources, files, transition, loaded, cast, locals,
                   ffmpeg, trace, liveCoders>>

\* fsPromise.writeFile(path.resolve(outDir, `${transition}.gif`),
\* ffmpeg.FS('readFile', 'animation.gif')): the GIF is what was recorded
\* from the loaded document
Publish ==
    /\ pc = "publish"
    /\ \/ /\ "animation.gif" \in fs.files
          /\ outDir' = [outDir EXCEPT !.gif[transition] = loaded]
          /\ pc' = "ffmpegExit"
          /\ UNCHANGED error
       \/ /\ error' = "publish"
          /\ pc' = "ffmpegExit"
          /\ UNCHANGED outDir
    /\ UNCHANGED <<clock, resources, tmpDir, transition, loaded, cast,
                   locals, coder, trace>>

\* finally { ffmpeg.exit() }: the instance and its file system are gone
FfmpegExit ==
    /\ pc = "ffmpegExit"
    /\ ffmpeg' = "exited"
    /\ fs' = NoFs
    /\ pc' = IF error = "none" THEN "loop" ELSE "rmTmp"
    /\ liveCoders' = liveCoders - 1
    /\ UNCHANGED <<error, clock, resources, files, transition, loaded, cast,
                   locals, trace>>

\* finally { await fsPromise.rm(tmpDir, { recursive: true, force: true }) }
RmTmp ==
    /\ pc = "rmTmp"
    /\ tmpDir' = [exists |-> FALSE, md |-> 0, html |-> 0]
    /\ pc' = "browserClose"
    /\ UNCHANGED <<error, clock, resources, outDir, transition, loaded, cast,
                   locals, coder, trace>>

\* mutant: browser.close() after the callback without try/finally, so that
\* it is skipped when the callback throws
BrowserClose_NoFinally ==
    /\ pc = "browserClose"
    /\ browser' = IF error = "none" THEN "closed" ELSE browser
    /\ page' = IF error = "none" /\ page = "open" THEN "closed" ELSE page
    /\ openPages' = IF error = "none" THEN 0 ELSE openPages
    /\ pc' = "done"
    /\ UNCHANGED <<error, clock, files, transition, loaded, cast, locals,
                   coder, trace>>

\* usePuppeteer's finally { await browser.close() }: the browser takes its
\* pages with it
BrowserClose ==
    /\ pc = "browserClose"
    /\ browser' = "closed"
    /\ page' = IF page = "open" THEN "closed" ELSE page
    /\ openPages' = 0
    /\ pc' = "done"
    /\ UNCHANGED <<error, clock, files, transition, loaded, cast, locals,
                   coder, trace>>

----------------------------------------------------------------------------
(* The script as a whole *)

Next ==
    \/ Launch \/ MkdirOut \/ Mkdtemp \/ NextTransition \/ WriteMd \/ MarpCli
    \/ NewPage \/ Goto \/ WarmupAdvance \/ WarmupRetreat \/ CreateCDPSession
    \/ PageEnable \/ StartScreencast \/ Advance \/ Retreat \/ StopScreencast
    \/ PageClose \/ Tick \/ SleepDone \/ ScreencastFrame
    \/ GenerateFrames \/ FfmpegLoad \/ FrameStep \/ Assemble \/ Palettegen
    \/ Paletteuse \/ Publish \/ FfmpegExit \/ RmTmp \/ BrowserClose

Spec == Init /\ [][Next]_vars

\* Every awaited operation settles (it resolves or rejects) and every timer
\* fires, and the event loop then runs the continuation: while a step of the
\* script is possible, one is eventually taken.
FairSpec == Spec /\ WF_vars(Next)

----------------------------------------------------------------------------
(* The resampler on its own: the script stands at "Generating frames..."   *)
(* of its first iteration (the page is closed, the buffer is final) with a *)
(* session drawn from bounded sets, and runs on through the frame loop.    *)

GridTimes == {k * GridMs : k \in 0..MaxGrid}

\* buffers of at most MaxSamples samples whose timestamps, taken from
\* Date.now() in arrival order, never decrease
GridBuffers ==
    UNION {{b \in [1..n -> [timestamp : GridTimes, data : Payloads]] :
              \A i \in 1..(n - 1) : b[i].timestamp <= b[i + 1].timestamp}
           : n \in 0..MaxSamples}

\* n samples, the first at t = 0, one every spacing ms
EvenBuffer(n, spacing) ==
    [i \in 1..n |-> [timestamp |-> (i - 1) * spacing, data |-> "png"]]

Spacings == {40, 150}

\* a sealed session: the buffer and the time at which the page was closed
Sessions ==
    {[samples |-> b, sessionEnd |-> e] : b \in GridBuffers, e \in GridTimes}
    \cup {[samples |-> EvenBuffer(n, sp), sessionEnd |-> n * sp] :
             n \in 1..MaxEvenSamples, sp \in Spacings}

InitResample ==
    \E s \in Sessions :
        /\ \A i \in 1..Len(s.samples) : s.samples[i].timestamp <= s.sessionEnd
        /\ pc = "generate"
        /\ error = "none"
        /\ now = s.sessionEnd
        /\ deadline = s.sessionEnd
        /\ browser = "open"
        /\ page = "closed"
        /\ outDir = [exists |-> TRUE, gif |-> [t \in transitions |-> 0]]
        /\ tmpDir = [exists |-> TRUE, md |-> 1, html |-> 1]
        /\ transition = 1
        /\ loaded = 1
        /\ screencast = "stopped"
        /\ screencastStart = 0
        /\ listening = FALSE
        /\ delivered = Len(s.samples)
        /\ acked = Len(s.samples)
        /\ captured = s.samples
        /\ lastTimestamp = Unset
        /\ firstTimestamp = Unset
        /\ durationMs = Unset
        /\ frames = Unset
        /\ capturedTimestamps = <<>>
        /\ ffmpeg = "none"
        /\ fs = NoFs
        /\ frame = Unset
        /\ selected = <<>>
        /\ events = [i \in 1..Len(s.samples) |->
                        [data |-> s.samples[i].data, at |-> "recording"]]
        /\ trace = CaptureSequence
        /\ openPages = 0
        /\ liveCoders = 0

NextResample == GenerateFrames \/ FfmpegLoad \/ FrameStep

SpecResample == InitResample /\ [][NextResample]_vars

----------------------------------------------------------------------------
(* The resampler with a late callback.  In the script as a whole no event  *)
(* is delivered once the page is closed; here an invocation of the handler *)
(* that was still pending at that moment runs at the one await between the *)
(* snapshot and the end of the frame loop, the await of ffmpeg.load().     *)

\* the Page.screencastFrame handler invoked while ffmpeg.load() is awaited:
\* captured.push({ timestamp: Date.now(), data }), possibly a little later
\* than lastTimestamp
LateScreencastFrame ==
    /\ pc = "ffmpegLoad"
    /\ Len(captured) - Len(capturedTimestamps) < MaxLate
    /\ \E data \in Payloads, elapsed \in {0, GridMs} :
          /\ now' = now + elapsed
          /\ events' = Append(events, [data |-> data, at |-> Phase(pc)])
          /\ captured' = Append(captured, [timestamp |-> now + elapsed,
                                           data |-> data])
    /\ delivered' = delivered + 1
    /\ acked' = acked + 1
    /\ UNCHANGED <<pc, error, deadline, resources, files, transition, loaded,
                   screencast, screencastStart, listening, locals, coder,
                   trace>>

NextLateFrame == NextResample \/ LateScreencastFrame

SpecLateFrame == InitResample /\ [][NextLateFrame]_vars

----------------------------------------------------------------------------
(* Properties of the resampler *)

\* the timestamp of the sample a visited frame was mapped to
SampleTime(r) == captured[r.sample + 1].timestamp

\* the frame loop has run to its end
LoopDone == pc = "assemble"

\* C1: nearest-preceding-sample law.  For every visited frame, with nominal
\* timestamp T = firstTimestamp + i * 1000 / fps, the selected sample's
\* timestamp is <= T and the buffer holds no sample whose timestamp lies in
\* (selected.timestamp, T]; so a sample whose timestamp equals T is the one
\* selected, not its predecessor.
C1_NearestPrecedingSample ==
    \A k \in 1..Len(selected) :
        LET r == selected[k]
        IN  /\ r.timestamp = firstTimestamp + (r.index * 1000) \div fps
            /\ SampleTime(r) <= r.timestamp
            /\ ~ \E j \in 1..Len(captured) :
                    /\ SampleTime(r) < captured[j].timestamp
                    /\ captured[j].timestamp <= r.timestamp

Scenario1 ==
    /\ Len(captured) = 10
    /\ \A i \in 1..Len(captured) : captured[i].timestamp = 150 * (i - 1)
    /\ lastTimestamp = 1500

\* C8: scenario 1 resampled at 25 fps yields 37 frames, frame 0 maps to the
\* sample at t = 0 and frame 36 (nominal t = 1440) to the sample at t = 1350.
C8_Scenario1 ==
    Scenario1 =>
        /\ frames = 37
        /\ LoopDone => Len(selected) = 37
        /\ \A k \in 1..Len(selected) :
              LET r == selected[k]
              IN  /\ r.sample + 1 \in DOMAIN captured
                  /\ r.index = 0 => SampleTime(r) = 0
                  /\ r.index = 36 => r.timestamp = 1440 /\ SampleTime(r) = 1350

\* C8 witness: scenario 1 has been resampled to its last frame
C8_Witness ==
    /\ Scenario1
    /\ LoopDone
    /\ Len(selected) = 37

\* C9: frame 0, whose nominal timestamp is the first sample's timestamp,
\* selects the first sample and is never mapped to "none", also when the
\* session holds one sample only.
C9_FrameZeroSelectsFirst ==
    \A k \in 1..Len(selected) :
        selected[k].index = 0 =>
            /\ selected[k].timestamp = captured[1].timestamp
            /\ selected[k].sample = 0

\* C9 witness: frame 0 of a one-sample session has been mapped and its
\* still image written
C9_Witness ==
    /\ Len(captured) = 1
    /\ Len(selected) >= 1
    /\ StillName(0) \in fs.stills

----------------------------------------------------------------------------
(* Properties of the run *)

\* the payload of the sample a visited frame was mapped to
SampleData(r) == captured[r.sample + 1].data

\* the nominal timestamp of frame index i on a timeline that starts when the
\* screencast starts
NominalFromStart(i) == screencastStart + (1000 * i) \div fps

StageErrors == {"assemble", "palettegen", "paletteuse"}
VariantErrors ==
    {"goto", "press", "createCDPSession", "Page.enable", "Page.startScreencast",
     "Page.stopScreencast", "TypeError"} \cup StageErrors

\* C3: a variant-level failure in variant n is caught at the per-variant
\* boundary and the driver goes on to variant n+1: the script never ends on
\* such a failure with variants left unprocessed.
C3_FailureDoesNotAbortBatch ==
    ~ (pc = "done" /\ error \in VariantErrors /\ transition < NumTransitions)

\* where the controller can be once an exception is on its way out of the
\* transcode try block
Unwinding == {"ffmpegExit", "rmTmp", "browserClose", "done"}

\* the artifacts that exist when the stage named by e has failed
ArtifactsBefore(e) ==
    CASE e = "assemble"   -> {}
      [] e = "palettegen" -> {"raw.mkv"}
      [] e = "paletteuse" -> {"raw.mkv", "palette.png"}

\* C4: when a transcode stage fails, no later stage and no publish step of
\* that variant runs, no <transition>.gif is written for it, and no output
\* file of an earlier variant changes.
C4_StageFailureContained ==
    /\ [](error \in StageErrors =>
            /\ pc \in Unwinding
            /\ fs.files \subseteq ArtifactsBefore(error)
            /\ outDir.gif[transition] = 0)
    /\ [][error' \in StageErrors => outDir' = outDir]_vars

\* C4 witness: the encode of the second variant failed after the first
\* variant was published, and the script has ended
C4_Witness ==
    /\ error = "paletteuse"
    /\ transition = 2
    /\ outDir.gif[1] /= 0
    /\ pc = "done"

\* C6: with an empty buffer at the end of the recording window the variant
\* fails before any resampling step: no frame count, no lookup, no
\* transcoder, no stage, and no output file for the variant.
C6_EmptyBufferFailsFirst ==
    (lastTimestamp /= Unset /\ captured = <<>>) =>
        /\ error = "TypeError"
        /\ pc \in {"rmTmp", "browserClose", "done"}
        /\ firstTimestamp = Unset
        /\ durationMs = Unset
        /\ frames = Unset
        /\ capturedTimestamps = <<>>
        /\ frame = Unset
        /\ selected = <<>>
        /\ ffmpeg = "none"
        /\ fs = NoFs
        /\ outDir.gif[transition] = 0

\* C6 witness: a recording that captured nothing has failed its variant
C6_Witness ==
    /\ screencast = "stopped"
    /\ captured = <<>>
    /\ error = "TypeError"
    /\ pc = "done"

\* C7: on every path, whatever failed on the way, the script comes to its
\* end with the page and the browser closed: no terminal state has either
\* still open, and a page is only ever open inside the try block whose
\* finally closes it.
C7_ResourcesReleased ==
    /\ [](pc = "done" =>
            /\ browser = IF error = "launch" THEN "none" ELSE "closed"
            /\ page \in {"none", "closed"})
    /\ [](page = "open" =>
            /\ browser = "open"
            /\ pc \in {"goto", "warmAdvance", "warmRetreat", "createCDP",
                       "pageEnable", "startScreencast", "advance", "retreat",
                       "stopScreencast", "pageClose"} \cup SleepPcs)
    /\ <>[](pc = "done" /\ browser /= "open" /\ page /= "open")

\* C7 witness: the script has ended on a failure of the recording, with the
\* page and the browser closed
C7_Witness ==
    /\ pc = "done"
    /\ error = "Page.stopScreencast"
    /\ page = "closed"
    /\ browser = "closed"

\* every visited frame whose sample has data has its still image
StillsWritten ==
    \A k \in 1..Len(selected) :
        SampleData(selected[k]) = "png" =>
            StillName(selected[k].index) \in fs.stills

\* C10: assemble, palette generation, paletted encode and publish run in
\* this order, each after the artifact of the one before exists, and
\* assemble after every frame of the variant is materialized.
C10_StagesInOrder ==
    /\ pc \in {"assemble", "palettegen", "paletteuse", "publish"} =>
          /\ ffmpeg = "loaded"
          /\ frame = frames
          /\ Len(selected) = frames
          /\ StillsWritten
    /\ pc = "assemble" => fs.files = {}
    /\ pc = "palettegen" => fs.files = {"raw.mkv"}
    /\ pc = "paletteuse" => fs.files = {"raw.mkv", "palette.png"}
    /\ pc = "publish" =>
          /\ fs.files = {"raw.mkv", "palette.png", "animation.gif"}
          /\ outDir.gif[transition] = 0
    /\ (transition \in transitions /\ outDir.gif[transition] /= 0
            /\ ffmpeg = "loaded") => "animation.gif" \in fs.files

\* C10 witness: the second variant stands at the publish step with the three
\* artifacts made from several frames
C10_Witness ==
    /\ pc = "publish"
    /\ transition = 2
    /\ frames >= 2
    /\ fs.stills /= {}

----------------------------------------------------------------------------
(* Staging areas *)

\* C11: staging areas are per-variant.  When an iteration starts to use the
\* temporary directory (it is about to write tmpMd) the directory holds no
\* markup and no HTML written by an earlier iteration, and the transcoder
\* created for an iteration starts with an empty file system.
C11_StagingPerVariant ==
    /\ pc = "writeMd" => (tmpDir.md = 0 /\ tmpDir.html = 0)
    /\ pc = "ffmpegLoad" => fs = NoFs

----------------------------------------------------------------------------
(* Still images *)

\* the frame index a name stands for: the digits read as a decimal number
RECURSIVE DecimalValue(_)
DecimalValue(name) ==
    IF name = <<>>
    THEN 0
    ELSE 10 * DecimalValue(SubSeq(name, 1, Len(name) - 1)) + name[Len(name)]

\* the frame indices visited so far whose selected sample carries image data
UsableIndices ==
    {selected[k].index : k \in {n \in 1..Len(selected) :
        /\ selected[n].sample + 1 \in DOMAIN captured
        /\ SampleData(selected[n]) = "png"}}

\* C14: while the transcoder's file system is live, the still images in it
\* are exactly those of the visited frame indices whose selected sample has
\* image data (none for a null payload); each is named by its frame index
\* written with 10 digits, so the names of two indices differ and the number
\* of files is the number of such indices.
C14_StillsNamedByIndex ==
    (ffmpeg = "loaded" /\ error = "none") =>
        LET usable == UsableIndices
            named  == {DecimalValue(name) : name \in fs.stills}
        IN  /\ \A name \in fs.stills :
                  /\ Len(name) = 10
                  /\ \A i \in 1..Len(name) : name[i] \in 0..9
            /\ named = usable
            /\ Cardinality(fs.stills) = Cardinality(usable)

\* C14 witness: the loop has ended, frame 0 was skipped for its null payload
\* and a frame with a two-digit index was written: the numbering has a gap
C14_Witness ==
    /\ pc = "assemble"
    /\ frames > 10
    /\ SampleData(selected[1]) = "null"
    /\ \E name \in fs.stills : DecimalValue(name) >= 10
    /\ \A name \in fs.stills : DecimalValue(name) /= 0

----------------------------------------------------------------------------
(* The screencast callback *)

\* the payloads of the delivered events, in delivery order
DeliveredData == [i \in 1..Len(events) |-> events[i].data]

\* the payloads of the samples in the buffer, in buffer order
BufferedData == [i \in 1..Len(captured) |-> captured[i].data]

\* the resampler has read the buffer
SnapshotTaken == pc \in {"ffmpegLoad", "frameLoop", "assemble"}

\* what the resampler reads holds every delivered sample, in delivery order
SnapshotHoldsDelivered ==
    SnapshotTaken =>
        /\ Len(capturedTimestamps) = Len(events)
        /\ BufferedData = DeliveredData
        /\ \A i \in 1..Len(events) :
              capturedTimestamps[i] = captured[i].timestamp

\* the controller is past page.close() only with the page closed
TornDown ==
    (pc \notin {"stopScreencast", "pageClose"}
        /\ \E i \in 1..Len(trace) : trace[i] = "start") => page = "closed"

\* C12: every sample delivered before the stop request is acknowledged,
\* those delivered while the stop request is pending included, is in the
\* buffer the resampler reads, in delivery order; and once stop has been
\* requested the script runs on to its end, whatever arrives in between,
\* and it does not get past page.close() without having closed the page.
C12_DeliveredSamplesVisible ==
    /\ []SnapshotHoldsDelivered
    /\ [](Len(trace) = 12 => TornDown)
    /\ (pc = "stopScreencast") ~> (pc = "done")

\* C12 witness: a sample arrived while the stop request was pending, the
\* page has been closed and the resampler has read a buffer of two samples
C12_Witness ==
    /\ pc = "ffmpegLoad"
    /\ page = "closed"
    /\ Len(events) = 2
    /\ events[2].at = "stopping"
    /\ Len(capturedTimestamps) = 2

\* C16: every event delivered to the handler is in the buffer exactly once
\* and acknowledged exactly once, no acknowledgement is ahead of its append,
\* and the samples in the buffer stand in the order of delivery.
C16_AppendedAndAckedOnce ==
    /\ delivered = Len(events)
    /\ Len(captured) = delivered
    /\ acked = delivered
    /\ acked <= Len(captured)
    /\ BufferedData = DeliveredData

\* C16 witness: two events with different payloads were delivered at
\* different times, the second after the retreat was dispatched
C16_Witness ==
    /\ pc = "sleepRetreat"
    /\ Len(events) = 2
    /\ captured[1].timestamp < captured[2].timestamp
    /\ captured[2].timestamp = now
    /\ events[1].data /= events[2].data
    /\ acked = 2

----------------------------------------------------------------------------
(* The capture sequence *)

\* the order of the orchestrator's events for one variant
OrchestratorOrder ==
    <<"loaded",
      "advance", "wait", "retreat", "wait",
      "start", "wait", "advance", "wait", "retreat", "wait", "stop">>

IsPrefix(s, t) == Len(s) <= Len(t) /\ s = SubSeq(t, 1, Len(s))

Occurrences(s, e) == Cardinality({i \in 1..Len(s) : s[i] = e})

\* the phases in which the screencast is on
RecordingPhases == {"recording", "stopping", "closing"}

\* C13: what the orchestrator has done for the current variant is always an
\* initial part of: loaded, advance, wait, retreat, wait, start, wait,
\* advance, wait, retreat, wait, stop.  The screencast is on, and a sample
\* is in the buffer, only after the five warm-up events; no event is
\* delivered during warm-up; and a variant whose capture has stopped has
\* dispatched exactly two advance and two retreat commands.
C13_CaptureSequenceOrder ==
    /\ IsPrefix(trace, OrchestratorOrder)
    /\ screencast /= "off" => Len(trace) >= 6
    /\ captured /= <<>> => Len(trace) >= 6
    /\ \A i \in 1..Len(events) : events[i].at \in RecordingPhases
    /\ Occurrences(trace, "advance") <= 2
    /\ Occurrences(trace, "retreat") <= 2
    /\ screencast = "stopped" =>
          /\ Len(trace) = 12
          /\ Occurrences(trace, "advance") = 2
          /\ Occurrences(trace, "retreat") = 2

\* C13 witness: the second variant's capture has stopped with samples taken
C13_Witness ==
    /\ transition = 2
    /\ pc = "pageClose"
    /\ screencast = "stopped"
    /\ trace[12] = "stop"
    /\ captured /= <<>>

----------------------------------------------------------------------------
(* A variant without usable frames *)

\* the frame loop has ended and no visited frame has image data: the frame
\* count is 0 or every selected sample has a null payload
NoUsableFrame == pc = "assemble" /\ UsableIndices = {}

----------------------------------------------------------------------------
(* Purging the transcoder *)

\* C17: for every variant for which a transcoder instance was created, the
\* instance has been exited, and its file system purged with it, by the time
\* the variant is over: when the next iteration may start and when the
\* script unwinds after a failure of any step from ffmpeg.load to publish.
C17_TranscoderPurgedOnce ==
    pc \in {"loop", "rmTmp", "browserClose", "done"} =>
        /\ liveCoders = 0
        /\ ffmpeg \in {"none", "exited"}

----------------------------------------------------------------------------
(* One variant at a time *)

\* the steps from "Generating frames..." to ffmpeg.exit()
PipelinePcs ==
    {"generate", "ffmpegLoad", "frameLoop", "assemble", "palettegen",
     "paletteuse", "publish", "ffmpegExit"}

\* C18: at most one page is open and at most one transcoder instance is
\* live; no page is open while the frames of a variant are generated and
\* transcoded; and a page is opened only when no page is open and no
\* transcoder is live, so the page of variant n is closed before the page of
\* variant n+1 is opened.
C18_OneVariantAtATime ==
    /\ openPages \in 0..1
    /\ liveCoders \in 0..1
    /\ openPages = 1 <=> page = "open"
    /\ pc \in PipelinePcs => openPages = 0
    /\ pc = "newPage" => (openPages = 0 /\ liveCoders = 0)
    /\ openPages = 1 => liveCoders = 0

\* C18 witness: the page of the second variant is open after the first
\* variant was recorded, transcoded and published
C18_Witness ==
    /\ transition = 2
    /\ pc = "goto"
    /\ openPages = 1
    /\ outDir.gif[1] /= 0

----------------------------------------------------------------------------
(* The document that is recorded *)

\* C19: the document loaded into the page of a variant is the one converted
\* from that variant's own markup, and the GIF published under a variant's
\* name was recorded from that variant's document.
C19_LoadedDocumentIsOwn ==
    /\ loaded \in {0, transition}
    /\ \A t \in transitions : outDir.gif[t] \in {0, t}

----------------------------------------------------------------------------
(* The mapping and late samples *)

\* the sealed session: the samples the snapshot was taken of
Sealed == SubSeq(captured, 1, Len(capturedTimestamps))

\* the 0-based index of the last sealed sample whose timestamp is earlier
\* than the nominal timestamp of frame index i, or 0 when there is none
SealedMapping(i) ==
    LET T       == firstTimestamp + (1000 * i) \div fps
        earlier == {j \in 1..Len(Sealed) : Sealed[j].timestamp < T}
    IN  IF earlier = {} THEN 0 ELSE (CHOOSE j \in earlier : \A m \in earlier : m <= j) - 1

\* C20: once the snapshot is taken, every visited frame is mapped to a
\* sample of the sealed session, the one the sealed session alone
\* determines, and evaluating findFrame again for the frame's timestamp
\* gives the same sample; a sample appended after the snapshot is selected
\* for no frame.
C20_MappingFixedAfterSnapshot ==
    \A k \in 1..Len(selected) :
        /\ selected[k].sample < Len(capturedTimestamps)
        /\ selected[k].sample = SealedMapping(selected[k].index)
        /\ selected[k].sample =
              FindFrame(capturedTimestamps, selected[k].timestamp)

\* C20 witness: a sample was appended after the snapshot, and a frame whose
\* nominal timestamp is later than every sealed sample was mapped to the
\* last sealed sample
C20_Witness ==
    /\ pc = "assemble"
    /\ Len(captured) > Len(capturedTimestamps)
    /\ Len(capturedTimestamps) >= 2
    /\ \E k \in 1..Len(selected) :
          /\ selected[k].timestamp > capturedTimestamps[Len(capturedTimestamps)]
          /\ selected[k].sample = Len(capturedTimestamps) - 1

====
